---- MODULE Spec2Model ----
(***************************************************************************)
(* Feature-template compiler and evaluator of the transition-based parser  *)
(* (parsing/features.py).                                                  *)
(*                                                                         *)
(* A descriptor string is a sequence of one-character strings, so that the *)
(* regular expressions of the source can be matched character by           *)
(* character.  A parser state is a graph (an ordered list of edges over    *)
(* integer node ids), a stack, a buffer, an action history and the list of *)
(* terminals.                                                              *)
(***************************************************************************)
EXTENDS Integers, Sequences, FiniteSets, TLC

VARIABLES
    feature_templates_arg,  \* the descriptors handed to FeatureExtractor(...)
    extractor,              \* outcome of the construction
    edges,                  \* the graph: edges in creation order
    stack,                  \* state.stack, last element = top
    buffer,                 \* state.buffer, first element = next
    actions,                \* state.actions, last element = most recent
    punct,                  \* the terminals whose tag is layer0.NodeTags.Punct
    implicit,               \* the nodes whose implicit flag is set
    result                  \* the last operation applied and what it gave

vars == <<feature_templates_arg, extractor, edges, stack, buffer, actions,
          punct, implicit, result>>

(***************************************************************************)
(* Bounds of the model.                                                    *)
(***************************************************************************)
MaxDescLen == 4     \* characters in the freely chosen descriptor
MaxDescs == 2       \* descriptors in the collection handed to the constructor

----------------------------------------------------------------------------
(***************************************************************************)
(* Generic helpers on sequences.                                           *)
(***************************************************************************)
RECURSIVE SeqsUpTo(_, _)
SeqsUpTo(S, n) ==
    IF n = 0 THEN {<<>>}
    ELSE LET shorter == SeqsUpTo(S, n - 1)
         IN  shorter \cup {Append(q, x) : q \in shorter, x \in S}

----------------------------------------------------------------------------
(***************************************************************************)
(* The template compiler.                                                  *)
(***************************************************************************)
\* The four character classes of FEATURE_ELEMENT_PATTERN.
SourceChars == {"s", "b", "a"}
DigitChars == {"0", "1", "2", "3", "4", "5", "6", "7", "8", "9"}
NavChars == {"l", "r", "u", "p"}
PropChars == {"w", "t", "e", "p", "q", "x", "y", "P", "C", "I", "R"}

\* Number of consecutive characters of class cls in s from position i on.
RECURSIVE Run(_, _, _)
Run(s, i, cls) ==
    IF i <= Len(s) /\ s[i] \in cls THEN 1 + Run(s, i + 1, cls) ELSE 0

\* ([sba])(\d) matches at position i.
ElementStartsAt(s, i) ==
    /\ i + 1 <= Len(s)
    /\ s[i] \in SourceChars
    /\ s[i + 1] \in DigitChars

\* Every position at which a match of FEATURE_ELEMENT_PATTERN that starts at
\* i can end (the regex engine backtracks over the two starred groups).
ElementEnds(s, i) ==
    IF ~ElementStartsAt(s, i) THEN {}
    ELSE UNION {{i + 2 + k + m : m \in 0..Run(s, i + 2 + k, PropChars)}
                    : k \in 0..Run(s, i + 2, NavChars)}

\* "$" without re.MULTILINE: the end of the string, or just before a newline
\* that is the last character of the string.
DollarAt(s, j) ==
    \/ j = Len(s) + 1
    \/ j = Len(s) /\ s[j] = "\n"

\* (element)+$ matches from position i on.
RECURSIVE TemplateMatchFrom(_, _)
TemplateMatchFrom(s, i) ==
    \E j \in ElementEnds(s, i) : DollarAt(s, j) \/ TemplateMatchFrom(s, j)

\* FEATURE_TEMPLATE_PATTERN.match(f) is truthy.
FEATURE_TEMPLATE_PATTERN_match(f) == TemplateMatchFrom(f, 1)

\* int(index) for the one digit that (\d) captures.
DigitValue ==
    [c \in DigitChars |->
        CASE c = "0" -> 0 [] c = "1" -> 1 [] c = "2" -> 2 [] c = "3" -> 3
          [] c = "4" -> 4 [] c = "5" -> 5 [] c = "6" -> 6 [] c = "7" -> 7
          [] c = "8" -> 8 [] c = "9" -> 9]

\* A slip that reads the digit as a one-based index.
int_one_based(index) == (DigitValue[index] + 9) % 10

int(index) == DigitValue[index]

FeatureTemplateElement(source, index, children, properties) ==
    [source |-> source, index |-> int(index),
     children |-> children, properties |-> properties]

FeatureTemplate(name, elements) == [name |-> name, elements |-> elements]

\* re.finditer(FEATURE_ELEMENT_PATTERN, s) from position i on: the leftmost
\* match, taken greedily, then on from its end; a position where no match
\* starts is passed over.  Each match gives a FeatureTemplateElement of its four groups.
RECURSIVE FEATURE_ELEMENT_PATTERN_finditer(_, _)
FEATURE_ELEMENT_PATTERN_finditer(s, i) ==
    IF i > Len(s) THEN <<>>
    ELSE IF ~ElementStartsAt(s, i) THEN FEATURE_ELEMENT_PATTERN_finditer(s, i + 1)
    ELSE LET k == Run(s, i + 2, NavChars)
             m == Run(s, i + 2 + k, PropChars)
             e == FeatureTemplateElement(s[i], s[i + 1],
                                         SubSeq(s, i + 2, i + 1 + k),
                                         SubSeq(s, i + 2 + k, i + 1 + k + m))
         IN  <<e>> \o FEATURE_ELEMENT_PATTERN_finditer(s, i + 2 + k + m)

\* ", ".join(items)
RECURSIVE Join(_)
Join(items) ==
    IF items = <<>> THEN <<>>
    ELSE IF Len(items) = 1 THEN items[1]
    ELSE items[1] \o <<",", " ">> \o Join(Tail(items))

\* FeatureExtractor.__init__: the assertion, then the list of templates.
FeatureExtractor(feature_templates) ==
    IF \A i \in 1..Len(feature_templates) :
            FEATURE_TEMPLATE_PATTERN_match(feature_templates[i])
    THEN [status |-> "ok",
          message |-> <<>>,
          feature_templates |->
              [i \in 1..Len(feature_templates) |->
                  FeatureTemplate(feature_templates[i],
                      FEATURE_ELEMENT_PATTERN_finditer(feature_templates[i], 1))]]
    ELSE [status |-> "AssertionError",
          message |-> <<"Features do not match pattern: ">> \o
              Join(SelectSeq(feature_templates,
                             LAMBDA f : ~FEATURE_TEMPLATE_PATTERN_match(f))),
          feature_templates |-> <<>>]

Unbuilt == [status |-> "unbuilt", message |-> <<>>, feature_templates |-> <<>>]

----------------------------------------------------------------------------
(***************************************************************************)
(* Inputs of the compiler: one freely chosen descriptor over a small       *)
(* alphabet, alone or beside fixed sample descriptors.                     *)
(***************************************************************************)
Alphabet == {"s", "0", "1", "p", "w", "z", "\n"}

Descriptors == SeqsUpTo(Alphabet, MaxDescLen)

SampleDescriptors == {<<"b", "0", "w">>, <<"s", "9", "z">>}

Collections ==
    {<<>>} \cup
    {c \in SeqsUpTo(SampleDescriptors \cup {<<"?">>}, MaxDescs) :
        Cardinality({i \in 1..Len(c) : c[i] = <<"?">>}) = 1}

\* The collection c with its placeholder replaced by the descriptor d.
Fill(c, d) == [i \in 1..Len(c) |-> IF c[i] = <<"?">> THEN d ELSE c[i]]

InitCompile ==
    /\ \E c \in Collections, d \in Descriptors : feature_templates_arg = Fill(c, d)
    /\ extractor = Unbuilt
    /\ edges = <<>> /\ stack = <<>> /\ buffer = <<>> /\ actions = <<>>
    /\ punct = {} /\ implicit = {}
    /\ result = [op |-> "none", arg |-> 0, p |-> "", out |-> [kind |-> "None", values |-> <<>>, exc |-> ""],
                 val |-> [t |-> "none", i |-> 0, s |-> ""]]

Construct ==
    /\ extractor.status = "unbuilt"
    /\ extractor' = FeatureExtractor(feature_templates_arg)
    /\ UNCHANGED <<feature_templates_arg, edges, stack, buffer, actions,
                   punct, implicit, result>>

NextCompile == Construct

SpecCompile == InitCompile /\ [][NextCompile]_vars

----------------------------------------------------------------------------
(***************************************************************************)
(* The graph and the parser state, as the evaluator reads them.            *)
(*                                                                         *)
(* Nodes are integers.  A terminal's id is its index, and state.terminals  *)
(* is the list of all terminals in index order.  An edge is a record       *)
(* [parent, child, tag, remote]; a node's outgoing and incoming edges are  *)
(* the edges of the graph that leave and reach it, in creation order.      *)
(***************************************************************************)
Terminals == {0, 1, 2, 3}
NonTerminals == {4, 5, 6}
Nodes == Terminals \cup NonTerminals

\* Python's None where a string is expected, and where a node is expected.
None == "<None>"
NoNode == -1

TerminalTexts == <<"w0", "w1", "w2", "w3">>
TerminalPosTags == <<"DT", "NN", "VB", "IN">>

text(n) == IF n \in Terminals THEN TerminalTexts[n + 1] ELSE None
pos_tag(n) == TerminalPosTags[n + 1]
index(n) == n
terminals == [k \in 1..Cardinality(Terminals) |-> k - 1]
IsPunct(n) == n \in punct

outgoing(n) == SelectSeq(edges, LAMBDA e : e.parent = n)
incoming(n) == SelectSeq(edges, LAMBDA e : e.child = n)
children(n) == [i \in 1..Len(outgoing(n)) |-> outgoing(n)[i].child]
parents(n) == [i \in 1..Len(incoming(n)) |-> incoming(n)[i].parent]

\* node.get_terminals(): the terminals below the node, in index order.
RECURSIVE Yield(_)
Yield(n) ==
    IF n \in Terminals THEN {n}
    ELSE UNION {Yield(children(n)[i]) : i \in 1..Len(children(n))}

RECURSIVE Sorted(_)
Sorted(S) ==
    IF S = {} THEN <<>>
    ELSE LET m == CHOOSE x \in S : \A y \in S : x <= y
         IN  <<m>> \o Sorted(S \ {m})

get_terminals(n) == Sorted(Yield(n))

----------------------------------------------------------------------------
(***************************************************************************)
(* Values of the evaluator.  A value v of a property is an integer, a      *)
(* string, None, or an exception raised while it was computed.             *)
(***************************************************************************)
IntV(i) == [t |-> "int", i |-> i, s |-> ""]
StrV(x) == IF x = None THEN [t |-> "none", i |-> 0, s |-> ""]
           ELSE [t |-> "str", i |-> 0, s |-> x]
NoneV == [t |-> "none", i |-> 0, s |-> ""]
Raise(x) == [t |-> x, i |-> 0, s |-> ""]

\* str(v)
str(v) == IF v.t = "int" THEN ToString(v.i) ELSE v.s

\* What node (or prev_node) refers to: a graph node, an action of the history
\* (by its position in state.actions), or None.
NodeRef(n) == [kind |-> "node", id |-> n]
ActionRef(k) == [kind |-> "action", id |-> k]
NoRef == [kind |-> "none", id |-> 0]

\* How a call ends: a list of values, None, or an exception that leaves it.
Values(vs) == [kind |-> "values", values |-> vs, exc |-> ""]
Skip == [kind |-> "None", values |-> <<>>, exc |-> ""]
Raised(x) == [kind |-> "raise", values |-> <<>>, exc |-> x]

----------------------------------------------------------------------------
(***************************************************************************)
(* Lexical head and gaps.                                                  *)
(***************************************************************************)
EdgeTagsByPriority ==
    <<"Center", "Connector", "ParallelScene", "Process", "State",
      "Participant", "Adverbial", "Time", "Elaborator", "Relator",
      "Function", "Linker", "LinkRelation", "LinkArgument", "Ground",
      "Terminal", "Punctuation">>

\* EDGE_PRIORITY.get(tag, 0)
EDGE_PRIORITY_get(tag) ==
    IF \E i \in 1..Len(EdgeTagsByPriority) : EdgeTagsByPriority[i] = tag
    THEN (CHOOSE i \in 1..Len(EdgeTagsByPriority) : EdgeTagsByPriority[i] = tag) - 1
    ELSE 0

\* min(es, key=...): the first edge is kept until one with a strictly
\* smaller key is met.
RECURSIVE MinFrom(_, _, _)
MinFrom(es, i, best) ==
    IF i > Len(es) THEN best
    ELSE IF EDGE_PRIORITY_get(es[i].tag) < EDGE_PRIORITY_get(best.tag)
         THEN MinFrom(es, i + 1, es[i])
         ELSE MinFrom(es, i + 1, best)

\* The first eligible edge, whatever its tag.
min_ignoring_priority(es) == es[1]

min(es) == MinFrom(es, 2, es[1])

RECURSIVE get_head_terminal(_)
get_head_terminal(node) ==
    IF text(node) # None THEN node
    ELSE LET es == SelectSeq(outgoing(node),
                             LAMBDA e : ~e.remote /\ e.child \notin implicit)
         IN  IF es = <<>> THEN NoNode
             ELSE get_head_terminal(min(es).child)

\* The index differences, without the "- 1".
gap_lengths_without_minus_one(node) ==
    LET ts == get_terminals(node)
    IN  [i \in 1..(Len(ts) - 1) |-> index(ts[i + 1]) - index(ts[i])]

gap_lengths(node) ==
    LET ts == get_terminals(node)
    IN  [i \in 1..(Len(ts) - 1) |-> index(ts[i + 1]) - index(ts[i]) - 1]

has_gaps(node) ==
    \E i \in 1..Len(gap_lengths(node)) : gap_lengths(node)[i] > 0

RECURSIVE Sum(_)
Sum(q) == IF q = <<>> THEN 0 ELSE Head(q) + Sum(Tail(q))

gap_length_sum(node) == Sum(gap_lengths(node))

gap_type(node) ==
    IF text(node) # None THEN "n"
    ELSE IF has_gaps(node) THEN "p"
    ELSE IF \E i \in 1..Len(children(node)) :
                text(children(node)[i]) = None /\ has_gaps(children(node)[i])
         THEN "s"
    ELSE "n"

----------------------------------------------------------------------------
(***************************************************************************)
(* Properties.                                                             *)
(***************************************************************************)
\* get_prop(node, p, prev_node); attribute access on a head terminal that is
\* None raises AttributeError, next() on an exhausted generator StopIteration.
get_prop(node, p, prev_node) ==
    CASE p = "w" ->
            IF get_head_terminal(node) = NoNode THEN Raise("AttributeError")
            ELSE StrV(text(get_head_terminal(node)))
      [] p = "t" ->
            IF get_head_terminal(node) = NoNode THEN Raise("AttributeError")
            ELSE StrV(pos_tag(get_head_terminal(node)))
      [] p = "e" ->
            LET es == SelectSeq(incoming(node),
                                LAMBDA e : prev_node = NoRef
                                           \/ NodeRef(e.parent) = prev_node)
            IN  IF es = <<>> THEN Raise("StopIteration") ELSE StrV(es[1].tag)
      [] p = "x" -> StrV(gap_type(node))
      [] p = "y" -> IntV(gap_length_sum(node))
      [] p = "P" -> IntV(Len(incoming(node)))
      [] p = "C" -> IntV(Len(outgoing(node)))
      [] p = "I" -> IntV(Len(SelectSeq(children(node), LAMBDA n : n \in implicit)))
      [] p = "R" -> IntV(Len(SelectSeq(outgoing(node), LAMBDA e : e.remote)))
      [] OTHER -> Raise("Exception")

\* get_action_prop(action, p)
get_action_prop(action, p) ==
    CASE p = "w" -> StrV(action.type)
      [] p = "e" -> StrV(action.tag)
      [] OTHER -> Raise("Exception")

\* The slice taken from t0 itself: terminals[t0.index:t1.index].
get_separator_prop_from_t0(nodes, terms, p) ==
    IF Len(nodes) < 2 THEN NoneV
    ELSE LET h1 == get_head_terminal(nodes[1])
             h2 == get_head_terminal(nodes[2])
         IN  IF h1 = NoNode \/ h2 = NoNode THEN Raise("AttributeError")
             ELSE LET t0 == IF index(h2) < index(h1) THEN h2 ELSE h1
                      t1 == IF index(h2) < index(h1) THEN h1 ELSE h2
                      slice == SubSeq(terms, index(t0) + 1,
                                      IF index(t1) < Len(terms)
                                      THEN index(t1) ELSE Len(terms))
                      punctuation == SelectSeq(slice, IsPunct)
                  IN  IF p = "p" /\ Len(punctuation) = 1
                      THEN StrV(text(punctuation[1]))
                      ELSE IF p = "q" THEN IntV(Len(punctuation))
                      ELSE NoneV

\* get_separator_prop(nodes, terminals, p); sorted() raises AttributeError
\* when a head terminal is None.
get_separator_prop(nodes, terms, p) ==
    IF Len(nodes) < 2 THEN NoneV
    ELSE LET h1 == get_head_terminal(nodes[1])
             h2 == get_head_terminal(nodes[2])
         IN  IF h1 = NoNode \/ h2 = NoNode THEN Raise("AttributeError")
             ELSE LET t0 == IF index(h2) < index(h1) THEN h2 ELSE h1
                      t1 == IF index(h2) < index(h1) THEN h1 ELSE h2
                      \* terminals[t0.index + 1:t1.index], zero-based
                      slice == SubSeq(terms, index(t0) + 2,
                                      IF index(t1) < Len(terms)
                                      THEN index(t1) ELSE Len(terms))
                      punctuation == SelectSeq(slice, IsPunct)
                  IN  IF p = "p" /\ Len(punctuation) = 1
                      THEN StrV(text(punctuation[1]))
                      ELSE IF p = "q" THEN IntV(Len(punctuation))
                      ELSE NoneV

\* state.stack[-1:-3:-1]: the top of the stack, then the entry under it.
TopTwoOfStack ==
    [i \in 1..(IF Len(stack) < 2 THEN Len(stack) ELSE 2) |->
        stack[Len(stack) + 1 - i]]

----------------------------------------------------------------------------
(***************************************************************************)
(* calc_feature.                                                           *)
(***************************************************************************)
\* Source selection that counts the stack and the history from the bottom.
SelectSource_from_bottom(element) ==
    IF element.source = "s"
    THEN IF Len(stack) <= element.index THEN NoRef
         ELSE NodeRef(stack[element.index + 1])
    ELSE IF element.source = "b"
    THEN IF Len(buffer) <= element.index THEN NoRef
         ELSE NodeRef(buffer[element.index + 1])
    ELSE IF Len(actions) <= element.index THEN NoRef
         ELSE ActionRef(element.index + 1)

\* Lines 88-99: the element's source entry, or NoRef when the index is out
\* of range.
SelectSource(element) ==
    IF element.source = "s"
    THEN IF Len(stack) <= element.index THEN NoRef
         ELSE NodeRef(stack[Len(stack) - element.index])
    ELSE IF element.source = "b"
    THEN IF Len(buffer) <= element.index THEN NoRef
         ELSE NodeRef(buffer[element.index + 1])
    ELSE IF Len(actions) <= element.index THEN NoRef
         ELSE ActionRef(Len(actions) - element.index)

\* Lines 101-116: one navigation letter applied to a graph node; NoNode when
\* the feature is to be skipped.
NavigateStep(node, child) ==
    IF child = "p"
    THEN IF parents(node) # <<>> THEN parents(node)[1] ELSE NoNode
    ELSE IF children(node) = <<>> THEN NoNode
    ELSE IF Len(children(node)) = 1
    THEN IF child = "u" THEN children(node)[1] ELSE node
    ELSE IF child = "l" THEN children(node)[1]
    ELSE IF child = "r" THEN children(node)[Len(children(node))]
    ELSE NoNode

\* Lines 100-116: the navigation letters from the i-th on.  An action has
\* neither parents nor children: reading them raises AttributeError.
RECURSIVE Navigate(_, _, _)
Navigate(ref, nav, i) ==
    IF i > Len(nav) THEN [out |-> "ok", ref |-> ref]
    ELSE IF ref.kind = "action" THEN [out |-> "AttributeError", ref |-> ref]
    ELSE LET n == NavigateStep(ref.id, nav[i])
         IN  IF n = NoNode THEN [out |-> "None", ref |-> ref]
             ELSE Navigate(NodeRef(n), nav, i + 1)

\* Lines 125-131: the value of one property of the element, or the exception
\* raised while it was computed.
RawPropertyValue(element, ref, p, prev_node) ==
    IF element.source = "a"
    THEN get_action_prop(actions[ref.id], p)
    ELSE IF p \in {"p", "q"}
    THEN get_separator_prop(TopTwoOfStack, terminals, p)
    ELSE get_prop(ref.id, p, prev_node)

\* The try statement without its except clause.
PropertyValue_uncaught(element, ref, p, prev_node) ==
    RawPropertyValue(element, ref, p, prev_node)

\* Lines 124-133: except (AttributeError, StopIteration): v = None.
PropertyValue(element, ref, p, prev_node) ==
    LET v == RawPropertyValue(element, ref, p, prev_node)
    IN  IF v.t \in {"AttributeError", "StopIteration"} THEN NoneV ELSE v

\* Lines 123-136: the properties from the j-th on, appended to values.
RECURSIVE Properties(_, _, _, _, _)
Properties(element, ref, j, values, prev_node) ==
    IF j > Len(element.properties) THEN Values(values)
    ELSE LET v == PropertyValue(element, ref, element.properties[j], prev_node)
         IN  IF v.t \in {"Exception", "AttributeError", "StopIteration"}
             THEN Raised(v.t)
             ELSE IF v.t = "none" THEN Skip
             ELSE Properties(element, ref, j + 1, Append(values, str(v)), prev_node)

\* The indicator with the edge looked up in the wrong direction.
EdgeIndicator_reversed(prev_node, node) ==
    IF prev_node.kind = "node"
       /\ \E i \in 1..Len(parents(prev_node.id)) :
              NodeRef(parents(prev_node.id)[i]) = node
    THEN "1" ELSE "0"

\* Line 119: "1" if prev_node in node.parents else "0"
EdgeIndicator(prev_node, node) ==
    IF \E i \in 1..Len(parents(node.id)) : NodeRef(parents(node.id)[i]) = prev_node
    THEN "1" ELSE "0"

\* Lines 87-137: the elements from the k-th on.
RECURSIVE Elements(_, _, _, _)
Elements(elements, k, values, prev_node) ==
    IF k > Len(elements) THEN Values(values)
    ELSE
    LET element == elements[k]
        src == SelectSource(element)
    IN  IF src = NoRef THEN Skip
        ELSE
        LET nav == Navigate(src, element.children, 1)
            node == nav.ref
        IN  IF nav.out = "None" THEN Skip
            ELSE IF nav.out = "AttributeError" THEN Raised("AttributeError")
            ELSE IF element.properties = <<>>
            THEN IF prev_node # NoRef
                 THEN IF node.kind = "action" THEN Raised("AttributeError")
                      ELSE Elements(elements, k + 1,
                               Append(values, EdgeIndicator(prev_node, node)),
                               node)
                 ELSE Elements(elements, k + 1, values, node)
            ELSE \* prev_node = None, before the properties are read
                 LET got == Properties(element, node, 1, values, NoRef)
                 IN  IF got.kind # "values" THEN got
                     ELSE Elements(elements, k + 1, got.values, NoRef)

calc_feature(feature_template) == Elements(feature_template.elements, 1, <<>>, NoRef)

----------------------------------------------------------------------------
(***************************************************************************)
(* The operations on a parser state.  The evaluator changes nothing of the *)
(* state it reads; result records the operation applied and what it gave.  *)
(***************************************************************************)
NoResult == [op |-> "none", arg |-> 0, p |-> "", out |-> Skip, val |-> NoneV]

FeatureTemplates == extractor.feature_templates

CalcFeature ==
    /\ result.op = "none"
    /\ extractor.status = "ok"
    /\ \E i \in 1..Len(FeatureTemplates) :
          result' = [op |-> "calc_feature", arg |-> i, p |-> "",
                     out |-> calc_feature(FeatureTemplates[i]), val |-> NoneV]
    /\ UNCHANGED <<feature_templates_arg, extractor, edges, stack, buffer,
                   actions, punct, implicit>>

GetHeadTerminal ==
    /\ result.op = "none"
    /\ \E n \in Nodes :
          result' = [op |-> "get_head_terminal", arg |-> n, p |-> "", out |-> Skip,
                     val |-> IF get_head_terminal(n) = NoNode THEN NoneV
                             ELSE IntV(get_head_terminal(n))]
    /\ UNCHANGED <<feature_templates_arg, extractor, edges, stack, buffer,
                   actions, punct, implicit>>

GapType ==
    /\ result.op = "none"
    /\ \E n \in Nodes :
          result' = [op |-> "gap_type", arg |-> n, p |-> "", out |-> Skip,
                     val |-> StrV(gap_type(n))]
    /\ UNCHANGED <<feature_templates_arg, extractor, edges, stack, buffer,
                   actions, punct, implicit>>

GapLengthSum ==
    /\ result.op = "none"
    /\ \E n \in Nodes :
          result' = [op |-> "gap_length_sum", arg |-> n, p |-> "", out |-> Skip,
                     val |-> IntV(gap_length_sum(n))]
    /\ UNCHANGED <<feature_templates_arg, extractor, edges, stack, buffer,
                   actions, punct, implicit>>

GetSeparatorProp ==
    /\ result.op = "none"
    /\ \E p \in {"p", "q"} :
          result' = [op |-> "get_separator_prop", arg |-> 0, p |-> p, out |-> Skip,
                     val |-> get_separator_prop(TopTwoOfStack, terminals, p)]
    /\ UNCHANGED <<feature_templates_arg, extractor, edges, stack, buffer,
                   actions, punct, implicit>>

----------------------------------------------------------------------------
(***************************************************************************)
(* Parser states the evaluator is applied to.                              *)
(***************************************************************************)
MaxStack == 3       \* entries of the stack
MaxBuffer == 2      \* entries of the buffer
MaxActions == 2     \* actions of the history
MaxEdges == 2       \* edges of the graph
MaxGapEdges == 4    \* edges of the graph where gaps are studied

DistinctSeqs(S, n) ==
    {q \in SeqsUpTo(S, n) : \A i, j \in 1..Len(q) : i # j => q[i] # q[j]}

Edge(parent, child, tag, remote) ==
    [parent |-> parent, child |-> child, tag |-> tag, remote |-> remote]

EdgesOver(pairs, tags, remotes) ==
    {Edge(pc[1], pc[2], tag, remote) : pc \in pairs, tag \in tags, remote \in remotes}

ActionPool == {[type |-> "SHIFT", tag |-> None],
               [type |-> "NODE", tag |-> "Participant"]}

History == <<[type |-> "NODE", tag |-> "Participant"],
             [type |-> "SHIFT", tag |-> None]>>

\* The state after construction from descriptors ds, over the given parser
\* states.
InitEval(ds, Graphs, Stacks, Buffers, Histories, PunctSets, ImplicitSets) ==
    /\ feature_templates_arg = ds
    /\ extractor = FeatureExtractor(ds)
    /\ edges \in Graphs
    /\ stack \in Stacks
    /\ buffer \in Buffers
    /\ actions \in Histories
    /\ punct \in PunctSets
    /\ implicit \in ImplicitSets
    /\ result = NoResult

\* Source selection: every stack, buffer and history up to the bounds, over
\* one graph in which the nodes differ in their numbers of parents and
\* children.
SourceGraph ==
    <<Edge(4, 0, "Center", FALSE), Edge(4, 1, "Participant", FALSE),
      Edge(5, 4, "Center", FALSE), Edge(5, 1, "Participant", TRUE)>>

SourceDescriptors ==
    <<<<"s", "0", "P", "C">>, <<"s", "1", "P", "C">>, <<"s", "2", "P", "C">>,
      <<"s", "3", "P", "C">>,
      <<"b", "0", "P", "C">>, <<"b", "1", "P", "C">>, <<"b", "2", "P", "C">>,
      <<"a", "0", "w">>, <<"a", "1", "w">>, <<"a", "2", "w">>>>

InitSource ==
    InitEval(SourceDescriptors, {SourceGraph},
             DistinctSeqs({0, 1, 4, 5}, MaxStack),
             DistinctSeqs({0, 1, 4, 5}, MaxBuffer),
             SeqsUpTo(ActionPool, MaxActions), {{}}, {{}})

NextSource == CalcFeature

SpecSource == InitSource /\ [][NextSource]_vars

\* Navigation, edge indicators and properties: every graph of up to MaxEdges
\* edges between two non-terminals and two terminals, under every stack.
EvalDescriptors ==
    <<<<"a", "0", "w">>, <<"a", "0", "e">>, <<"a", "1", "e">>,
      <<"a", "0", "w", "e">>, <<"a", "0", "t">>, <<"a", "0", "w", "t">>,
      <<"a", "0", "q">>, <<"a", "0", "p">>, <<"a", "0", "l">>, <<"a", "0">>,
      <<"s", "0", "a", "0">>, <<"a", "0", "s", "0">>,
      <<"s", "1", "s", "0", "e">>, <<"s", "0", "e">>,
      <<"s", "0", "l", "P", "C">>, <<"s", "0", "r", "P", "C">>,
      <<"s", "0", "u", "P", "C">>, <<"s", "0", "p", "P", "C">>,
      <<"s", "1", "s", "0">>, <<"s", "1", "s", "0", "b", "0">>,
      <<"s", "0", "w", "s", "1", "s", "0">>,
      <<"s", "0", "w", "t", "x", "y", "P", "C", "I", "R">>,
      <<"b", "0", "s", "0">>>>

EvalEdges ==
    EdgesOver({<<4, 0>>, <<4, 1>>, <<5, 0>>, <<5, 4>>},
              {"Center", "Participant"}, {FALSE})

Init ==
    InitEval(EvalDescriptors, DistinctSeqs(EvalEdges, MaxEdges),
             DistinctSeqs({0, 1, 4, 5}, MaxStack), {<<1>>},
             {<<>>, History}, {{}}, {{}})

Next == CalcFeature

Spec == Init /\ [][Next]_vars

\* Lexical heads: edges of three tags, remote or not, to terminals, to a
\* non-terminal and to the implicit node 6.
HeadDescriptors ==
    <<<<"s", "0", "w">>, <<"s", "0", "t">>, <<"s", "0", "w", "t">>>>

HeadEdges ==
    EdgesOver({<<4, 0>>, <<4, 1>>, <<5, 4>>, <<5, 6>>},
              {"Center", "Participant", "Quantifier"}, {FALSE, TRUE})

InitHead ==
    InitEval(HeadDescriptors, DistinctSeqs(HeadEdges, MaxEdges),
             {<<0>>, <<4>>, <<5>>}, {<<>>}, {<<>>}, {{}}, {{6}})

NextHead == CalcFeature \/ GetHeadTerminal

SpecHead == InitHead /\ [][NextHead]_vars

\* Gaps: up to MaxGapEdges edges from two non-terminals to four terminals.
GapDescriptors ==
    <<<<"s", "0", "x">>, <<"s", "0", "y">>, <<"s", "0", "x", "y">>>>

GapEdges ==
    EdgesOver({<<4, 0>>, <<4, 2>>, <<4, 3>>, <<5, 4>>, <<5, 1>>, <<5, 3>>},
              {"Participant"}, {FALSE})

InitGap ==
    InitEval(GapDescriptors, DistinctSeqs(GapEdges, MaxGapEdges),
             {<<0>>, <<4>>, <<5>>}, {<<>>}, {<<>>}, {{}}, {{}})

NextGap == CalcFeature \/ GapType \/ GapLengthSum

SpecGap == InitGap /\ [][NextGap]_vars

\* Separators: every choice of punctuation among terminals 1 and 2, every
\* stack, and graphs that give the non-terminals a head or none.
SepDescriptors ==
    <<<<"s", "0", "q">>, <<"s", "0", "q", "p">>, <<"b", "0", "q">>,
      <<"b", "0", "q", "p">>>>

SepEdges ==
    EdgesOver({<<4, 0>>, <<4, 3>>, <<5, 2>>, <<5, 3>>}, {"Center"}, {FALSE})

InitSep ==
    InitEval(SepDescriptors, DistinctSeqs(SepEdges, MaxEdges),
             DistinctSeqs({0, 2, 3, 4, 5}, MaxStack), {<<1>>}, {<<>>},
             SUBSET {1, 2}, {{}})

NextSep == CalcFeature \/ GetSeparatorProp

SpecSep == InitSep /\ [][NextSep]_vars

----------------------------------------------------------------------------
(***************************************************************************)
(* The grammar as the specification words it, written apart from the       *)
(* regular expressions above: one or more elements, each a source letter, *)
(* an index, any number of navigation letters and any number of property  *)
(* letters, over the whole string; the index is exactly one digit          *)
(* (multi = FALSE) or one or more digits (multi = TRUE).                   *)
(***************************************************************************)
GrammarElementEnds(s, i, multi) ==
    IF ~(i + 1 <= Len(s) /\ s[i] \in SourceChars /\ s[i + 1] \in DigitChars)
    THEN {}
    ELSE LET dmax == IF multi THEN Run(s, i + 1, DigitChars) ELSE 1
         IN  UNION {UNION {{i + 1 + d + k + m
                               : m \in 0..Run(s, i + 1 + d + k, PropChars)}
                              : k \in 0..Run(s, i + 1 + d, NavChars)}
                       : d \in 1..dmax}

RECURSIVE InGrammarFrom(_, _, _)
InGrammarFrom(s, i, multi) ==
    \E j \in GrammarElementEnds(s, i, multi) :
        j = Len(s) + 1 \/ InGrammarFrom(s, j, multi)

InGrammar(s, multi) == InGrammarFrom(s, 1, multi)

\* The positions of the source letters of a descriptor, in order.
SourcePositions(s) ==
    SelectSeq([i \in 1..Len(s) |-> i], LAMBDA i : s[i] \in SourceChars)

Digits == <<"0", "1", "2", "3", "4", "5", "6", "7", "8", "9">>

\* The decimal value of the n digits of s that start at position i.
RECURSIVE DecimalValue(_, _, _)
DecimalValue(s, i, n) ==
    IF n = 0 THEN 0
    ELSE 10 * DecimalValue(s, i, n - 1)
         + (CHOOSE v \in 0..9 : Digits[v + 1] = s[i + n - 1])

\* Template t has one element per source letter of descriptor d, in order,
\* each with that source letter and the decimal value of the digits after it.
ElementsFollowDescriptor(t, d) ==
    LET pos == SourcePositions(d)
    IN  /\ Len(t.elements) = Len(pos)
        /\ \A k \in 1..Len(pos) :
              /\ t.elements[k].source = d[pos[k]]
              /\ t.elements[k].index =
                     DecimalValue(d, pos[k] + 1, Run(d, pos[k] + 1, DigitChars))

Built == extractor.status # "unbuilt"

Offending == SelectSeq(feature_templates_arg, LAMBDA f : ~InGrammar(f, FALSE))

\* C1 (as claimed): construction fails if and only if some descriptor is not
\* a string of the grammar; a failure's message lists exactly the offending
\* descriptors and gives no templates; a success gives one template per
\* descriptor, in input order, named by it.
C1_FailsIffSomeDescriptorOutsideGrammar ==
    Built =>
        /\ (extractor.status = "AssertionError") <=> (Offending # <<>>)
        /\ extractor.status = "AssertionError" =>
              /\ extractor.message =
                     <<"Features do not match pattern: ">> \o Join(Offending)
              /\ extractor.feature_templates = <<>>
        /\ extractor.status = "ok" =>
              /\ Len(extractor.feature_templates) = Len(feature_templates_arg)
              /\ \A i \in 1..Len(feature_templates_arg) :
                    extractor.feature_templates[i].name = feature_templates_arg[i]

\* C2 (as claimed): every descriptor of the grammar whose indices are one or
\* more digits compiles, and each element's index is the decimal value of its
\* digits.
C2_MultiDigitIndexCompiles ==
    Built =>
        ((\A i \in 1..Len(feature_templates_arg) :
              InGrammar(feature_templates_arg[i], TRUE))
         => /\ extractor.status = "ok"
            /\ \A i \in 1..Len(feature_templates_arg) :
                  ElementsFollowDescriptor(extractor.feature_templates[i],
                                           feature_templates_arg[i]))

\* Descriptor s has a source letter followed by two or more digits.
HasMultiDigitIndex(s) ==
    \E i \in 1..Len(s) : s[i] \in SourceChars /\ Run(s, i + 1, DigitChars) >= 2

\* C2 (amended): every descriptor of the grammar whose indices are exactly one
\* digit compiles, each element's index being the value of that digit; a
\* descriptor with an index of two or more digits is rejected.
C2_SingleDigitIndexCompiles ==
    Built =>
        /\ (\A i \in 1..Len(feature_templates_arg) :
                InGrammar(feature_templates_arg[i], FALSE))
           => /\ extractor.status = "ok"
              /\ \A i \in 1..Len(feature_templates_arg) :
                    ElementsFollowDescriptor(extractor.feature_templates[i],
                                             feature_templates_arg[i])
        /\ (\E i \in 1..Len(feature_templates_arg) :
                HasMultiDigitIndex(feature_templates_arg[i]))
           => extractor.status = "AssertionError"

\* A compiled collection holding a template of two elements with indices 0 and 1.
C2_Witness ==
    /\ extractor.status = "ok"
    /\ \E i \in 1..Len(extractor.feature_templates) :
          LET t == extractor.feature_templates[i]
          IN  /\ Len(t.elements) = 2
              /\ t.elements[1].index = 0
              /\ t.elements[2].index = 1

----------------------------------------------------------------------------
(***************************************************************************)
(* What the claims say of the evaluator, stated on the edges, the stack,   *)
(* the buffer and the history themselves.                                  *)
(***************************************************************************)
IsCalc == result.op = "calc_feature"
Template == FeatureTemplates[result.arg]

RECURSIVE Reverse(_)
Reverse(q) == IF q = <<>> THEN <<>> ELSE Append(Reverse(Tail(q)), Head(q))

\* The numbers of parents and of children of node n, as properties P and C
\* print them.
ParentsAndChildren(n) ==
    <<ToString(Cardinality({i \in 1..Len(edges) : edges[i].child = n})),
      ToString(Cardinality({i \in 1..Len(edges) : edges[i].parent = n}))>>

\* The sequence an element reads from.
SourceSequence(el) ==
    IF el.source = "s" THEN stack ELSE IF el.source = "b" THEN buffer ELSE actions

\* The number of values element k of template t contributes.
EmitsIndicator(t, k) ==
    /\ k > 1
    /\ t.elements[k].properties = <<>>
    /\ t.elements[k - 1].properties = <<>>

ValuesOfElement(t, k) ==
    IF t.elements[k].properties # <<>> THEN Len(t.elements[k].properties)
    ELSE IF EmitsIndicator(t, k) THEN 1 ELSE 0

RECURSIVE ValuesBefore(_, _)
ValuesBefore(t, k) ==
    IF k = 1 THEN 0 ELSE ValuesBefore(t, k - 1) + ValuesOfElement(t, k - 1)

ExpectedCount(t) == ValuesBefore(t, Len(t.elements) + 1)

\* C3: a stack element of index i reads the i-th entry from the top, a buffer
\* element the i-th entry from the front, an action element the i-th action
\* from the most recent one; the feature is skipped exactly when i is not
\* below the length of the sequence read.
C3_SourceSelection ==
    IsCalc =>
        LET el == Template.elements[1]
            i == el.index
        IN  IF i >= Len(SourceSequence(el)) THEN result.out = Skip
            ELSE result.out =
                     Values(IF el.source = "s"
                            THEN ParentsAndChildren(Reverse(stack)[i + 1])
                            ELSE IF el.source = "b"
                            THEN ParentsAndChildren(buffer[i + 1])
                            ELSE <<Reverse(actions)[i + 1].type>>)

\* A stack element whose index is len(stack) - 1 read the bottom of a stack
\* of two or more entries.
C3_Witness ==
    /\ IsCalc
    /\ Template.elements[1].source = "s"
    /\ Template.elements[1].index = Len(stack) - 1
    /\ Len(stack) >= 2
    /\ result.out.kind = "values"

\* C4 (as claimed): calc_feature ends with a complete list of values or with
\* None, never with an exception.
C4_ValuesOrSkipOnly ==
    IsCalc =>
        /\ result.out.kind \in {"values", "None"}
        /\ result.out.kind = "values" =>
              Len(result.out.values) = ExpectedCount(Template)

\* Element k of template t reads the action history and asks of the action
\* what only a node has: a navigation step, a property other than w and e,
\* or the edge indicator against the element before it.
UnsupportedActionElement(t, k) ==
    /\ t.elements[k].source = "a"
    /\ \/ t.elements[k].children # <<>>
       \/ \E j \in 1..Len(t.elements[k].properties) :
              t.elements[k].properties[j] \notin {"w", "e"}
       \/ EmitsIndicator(t, k)

\* C4 (amended): calc_feature ends with a complete list of values, with None,
\* or with an exception; an exception comes only from a template with an
\* action-history element that carries a navigation letter or a property
\* other than w and e, or that is property-less right after a property-less
\* element; and a first element that reads an existing action and carries a
\* navigation letter, or a first property other than w and e, does raise.
C4_HardFailureOnlyAtActionElements ==
    IsCalc =>
        /\ result.out.kind \in {"values", "None", "raise"}
        /\ result.out.kind = "values" =>
              Len(result.out.values) = ExpectedCount(Template)
        /\ result.out.kind = "raise" =>
              \E k \in 1..Len(Template.elements) :
                  UnsupportedActionElement(Template, k)
        /\ LET el == Template.elements[1]
           IN  (/\ el.source = "a"
                /\ el.index < Len(actions)
                /\ \/ el.children # <<>>
                   \/ el.properties # <<>> /\ el.properties[1] \notin {"w", "e"})
               => result.out.kind = "raise"

\* Template a0t, evaluated over a non-empty history, raised.
C4_Witness ==
    /\ IsCalc
    /\ Template.name = <<"a", "0", "t">>
    /\ result.out = Raised("Exception")

\* The tag of the first edge of the graph that reaches node n, from parent
\* prev when prev is a node, from any parent when prev is NoNode; None if
\* there is no such edge.
FirstIncomingTag(n, prev) ==
    LET from == {i \in 1..Len(edges) :
                    edges[i].child = n /\ (prev = NoNode \/ edges[i].parent = prev)}
    IN  IF from = {} THEN None
        ELSE edges[CHOOSE i \in from : \A j \in from : i <= j].tag

\* C5: property e after a property-less element (template s1s0e) gives the
\* tag of the first incoming edge whose parent is the previous element's
\* node, and skips the feature when there is none; without a previous
\* element (template s0e) it gives the tag of the first incoming edge, and
\* skips when the node has no incoming edge.
C5_EdgeTagFollowsPrevNode ==
    /\ (IsCalc /\ Template.name = <<"s", "1", "s", "0", "e">> /\ Len(stack) >= 2) =>
          LET tag == FirstIncomingTag(stack[Len(stack)], stack[Len(stack) - 1])
          IN  result.out = IF tag = None THEN Skip ELSE Values(<<tag>>)
    /\ (IsCalc /\ Template.name = <<"s", "0", "e">> /\ Len(stack) >= 1) =>
          LET tag == FirstIncomingTag(stack[Len(stack)], NoNode)
          IN  result.out = IF tag = None THEN Skip ELSE Values(<<tag>>)

\* The node that navigation letter c leads to from node n as the claim has
\* it, NoNode where the feature is to be skipped.
ClaimedStep(n, c) ==
    CASE c = "l" -> IF children(n) = <<>> THEN NoNode ELSE children(n)[1]
      [] c = "r" -> IF children(n) = <<>> THEN NoNode
                    ELSE children(n)[Len(children(n))]
      [] c = "u" -> IF Len(children(n)) = 1 THEN children(n)[1] ELSE NoNode
      [] c = "p" -> IF parents(n) = <<>> THEN NoNode ELSE parents(n)[1]

\* C9: from a node with at least one child, l moves to the first child and r
\* to the last, and both skip the feature exactly when there is no child; u
\* moves to the child exactly when there is one child and skips otherwise; p
\* moves to the parent of the first incoming edge and skips when there is
\* none.  Read off templates s0lPC, s0rPC, s0uPC and s0pPC.
C9_ChildAndParentNavigation ==
    (/\ IsCalc
     /\ Len(Template.elements) = 1
     /\ Template.elements[1].source = "s"
     /\ Template.elements[1].index = 0
     /\ Len(Template.elements[1].children) = 1
     /\ Template.elements[1].properties = <<"P", "C">>
     /\ stack # <<>>)
    => LET to == ClaimedStep(stack[Len(stack)], Template.elements[1].children[1])
       IN  result.out = IF to = NoNode THEN Skip
                        ELSE Values(ParentsAndChildren(to))

\* The entry that a navigation-less element reads.
Resolved(el) ==
    IF el.source = "s" THEN NodeRef(Reverse(stack)[el.index + 1])
    ELSE IF el.source = "b" THEN NodeRef(buffer[el.index + 1])
    ELSE ActionRef(Len(actions) - el.index)

\* C10: when values are returned, their number is fixed by the template: one
\* per property, and one indicator per property-less element that directly
\* follows a property-less element; that indicator is "1" if the graph has an
\* edge from the previous element's node to this element's node and "0"
\* otherwise.
C10_EdgeIndicators ==
    (IsCalc /\ result.out.kind = "values") =>
        /\ Len(result.out.values) = ExpectedCount(Template)
        /\ \A k \in 1..Len(Template.elements) :
              (/\ EmitsIndicator(Template, k)
               /\ Template.elements[k].children = <<>>
               /\ Template.elements[k - 1].children = <<>>)
              => LET prev == Resolved(Template.elements[k - 1])
                     node == Resolved(Template.elements[k])
                 IN  result.out.values[ValuesBefore(Template, k) + 1] =
                         IF /\ prev.kind = "node"
                            /\ \E i \in 1..Len(edges) :
                                  /\ edges[i].parent = prev.id
                                  /\ edges[i].child = node.id
                         THEN "1" ELSE "0"

\* Template s1s0b0 gave two indicators, the first "1" and the second "0".
C10_Witness ==
    /\ IsCalc
    /\ Template.name = <<"s", "1", "s", "0", "b", "0">>
    /\ result.out = Values(<<"1", "0">>)

----------------------------------------------------------------------------
(***************************************************************************)
(* Separators, lexical heads and gaps as the claims have them.             *)
(***************************************************************************)
\* The punctuation terminals whose index lies strictly between the indices of
\* the head terminals of the two top stack entries.
PunctuationBetweenTopTwo ==
    LET a == index(get_head_terminal(stack[Len(stack)]))
        b == index(get_head_terminal(stack[Len(stack) - 1]))
    IN  {k \in Terminals : /\ k \in punct
                           /\ (a < k /\ k < b) \/ (b < k /\ k < a)}

TopTwoHaveHeads ==
    /\ Len(stack) >= 2
    /\ get_head_terminal(stack[Len(stack)]) # NoNode
    /\ get_head_terminal(stack[Len(stack) - 1]) # NoNode

\* C6: on a stack or buffer element, q and p are computed from the two top
\* stack entries: with fewer than two entries, or an entry without head
\* terminal, the feature is skipped; otherwise, K being the number of
\* punctuation terminals strictly between the two heads, q gives K and p
\* gives the text of the one such terminal when K = 1 and skips the feature
\* when K = 0 or K >= 2.  Read off templates s0q, s0qp, b0q and b0qp, and off
\* get_separator_prop itself.
C6_SeparatorProperties ==
    /\ IsCalc =>
          LET el == Template.elements[1]
              K == Cardinality(PunctuationBetweenTopTwo)
          IN  IF el.index >= Len(SourceSequence(el)) \/ ~TopTwoHaveHeads
              THEN result.out = Skip
              ELSE IF el.properties = <<"q">>
              THEN result.out = Values(<<ToString(K)>>)
              ELSE IF K = 1
              THEN result.out =
                       Values(<<"1", text(CHOOSE k \in PunctuationBetweenTopTwo : TRUE)>>)
              ELSE result.out = Skip
    /\ result.op = "get_separator_prop" =>
          IF ~TopTwoHaveHeads
          THEN result.val.t \in {"none", "AttributeError"}
          ELSE LET K == Cardinality(PunctuationBetweenTopTwo)
               IN  IF result.p = "q" THEN result.val = IntV(K)
                   ELSE IF K = 1
                   THEN result.val =
                            StrV(text(CHOOSE k \in PunctuationBetweenTopTwo : TRUE))
                   ELSE result.val = NoneV

\* Template b0qp gave the count 1 and the text of the one punctuation
\* terminal between heads 0 and 3, the other terminal between them being no
\* punctuation.
C6_Witness ==
    /\ IsCalc
    /\ Template.name = <<"b", "0", "q", "p">>
    /\ TopTwoHaveHeads
    /\ {get_head_terminal(stack[Len(stack)]),
        get_head_terminal(stack[Len(stack) - 1])} = {0, 3}
    /\ Cardinality(PunctuationBetweenTopTwo) = 1
    /\ result.out.kind = "values"

\* The rank of an edge tag in the fixed priority order; a tag that is not in
\* the order ranks with Center.
PriorityRank(tag) ==
    CASE tag = "Center" -> 0 [] tag = "Connector" -> 1
      [] tag = "ParallelScene" -> 2 [] tag = "Process" -> 3
      [] tag = "State" -> 4 [] tag = "Participant" -> 5
      [] tag = "Adverbial" -> 6 [] tag = "Time" -> 7
      [] tag = "Elaborator" -> 8 [] tag = "Relator" -> 9
      [] tag = "Function" -> 10 [] tag = "Linker" -> 11
      [] tag = "LinkRelation" -> 12 [] tag = "LinkArgument" -> 13
      [] tag = "Ground" -> 14 [] tag = "Terminal" -> 15
      [] tag = "Punctuation" -> 16 [] OTHER -> 0

\* The positions, in the graph's edge list, of the eligible edges of node n:
\* those that leave n, are not remote and whose child is not implicit.
EligibleEdges(n) ==
    {i \in 1..Len(edges) : /\ edges[i].parent = n
                           /\ ~edges[i].remote
                           /\ edges[i].child \notin implicit}

\* Edge i is the eligible edge of n of lowest rank, the earliest among those
\* of equal rank.
IsHeadEdge(n, i) ==
    /\ i \in EligibleEdges(n)
    /\ \A j \in EligibleEdges(n) :
          \/ PriorityRank(edges[i].tag) < PriorityRank(edges[j].tag)
          \/ PriorityRank(edges[i].tag) = PriorityRank(edges[j].tag) /\ i <= j

\* The nodes met from n by moving, again and again, along the head edge of
\* the node reached; k moves are enough when k non-terminals exist.
RECURSIVE HeadReach(_, _)
HeadReach(S, k) ==
    IF k = 0 THEN S
    ELSE HeadReach(S \cup {edges[i].child : i \in {j \in 1..Len(edges) :
                               \E m \in S \ Terminals : IsHeadEdge(m, j)}},
                   k - 1)

\* The terminals at which the walk from n along head edges ends.
ClaimedHeads(n) == HeadReach({n}, Cardinality(NonTerminals)) \cap Terminals

\* C7: a terminal is its own head; a non-terminal resolves along the eligible
\* edges of lowest rank, the earliest among equals, down to a terminal; where
\* a node on the way has no eligible edge there is no head, and w and t skip
\* the feature.  Read off get_head_terminal and templates s0w, s0t and s0wt.
C7_HeadTerminal ==
    /\ result.op = "get_head_terminal" =>
          /\ result.arg \in Terminals => result.val = IntV(result.arg)
          /\ \A h \in ClaimedHeads(result.arg) : result.val = IntV(h)
          /\ ClaimedHeads(result.arg) = {} => result.val = NoneV
    /\ IsCalc =>
          LET heads == ClaimedHeads(stack[Len(stack)])
          IN  IF heads = {} THEN result.out = Skip
              ELSE \A h \in heads :
                      result.out =
                          Values([j \in 1..Len(Template.elements[1].properties) |->
                                    IF Template.elements[1].properties[j] = "w"
                                    THEN TerminalTexts[h + 1]
                                    ELSE TerminalPosTags[h + 1]])

\* Node 4 has a Participant edge to terminal 0 and, after it, a Center edge to
\* terminal 1, and resolved to terminal 1.
C7_Witness ==
    /\ result.op = "get_head_terminal"
    /\ result.arg = 4
    /\ edges = <<Edge(4, 0, "Participant", FALSE), Edge(4, 1, "Center", FALSE)>>
    /\ result.val = IntV(1)

\* The terminal indices inside the span of node n's yield that the yield
\* leaves out.
MissingFromSpan(n) ==
    {k \in Terminals : /\ k \notin Yield(n)
                       /\ \E a, b \in Yield(n) : a < k /\ k < b}

ClaimedGapType(n) ==
    IF n \in Terminals THEN "n"
    ELSE IF MissingFromSpan(n) # {} THEN "p"
    ELSE IF \E i \in 1..Len(edges) :
                /\ edges[i].parent = n
                /\ edges[i].child \notin Terminals
                /\ MissingFromSpan(edges[i].child) # {}
         THEN "s"
    ELSE "n"

\* C8: gap_type is "n" for a terminal, else "p" if the node's yield has a gap,
\* else "s" if a non-terminal child's yield has one, else "n"; gap_length_sum
\* is the total length of the gaps of the node's yield, a non-negative
\* integer.  Read off gap_type, gap_length_sum and templates s0x, s0y, s0xy.
C8_GapClassification ==
    /\ result.op = "gap_type" => result.val = StrV(ClaimedGapType(result.arg))
    /\ result.op = "gap_length_sum" =>
          /\ result.val = IntV(Cardinality(MissingFromSpan(result.arg)))
          /\ result.val.i >= 0
    /\ IsCalc =>
          LET n == stack[Len(stack)]
          IN  result.out =
                  Values([j \in 1..Len(Template.elements[1].properties) |->
                            IF Template.elements[1].properties[j] = "x"
                            THEN ClaimedGapType(n)
                            ELSE ToString(Cardinality(MissingFromSpan(n)))])

\* A node whose yield is terminals 0 and 2 gave gap type "p" and gap length
\* sum 1 under template s0xy.
C8_Witness ==
    /\ IsCalc
    /\ Template.name = <<"s", "0", "x", "y">>
    /\ Yield(stack[Len(stack)]) = {0, 2}
    /\ result.out = Values(<<"p", "1">>)

====
